---- MODULE Spec2Model ----
(***************************************************************************)
(* Model of the api-resp crate (src/src/lib.rs): the ApiResp envelope, its *)
(* JSON form, the DaoResult -> JSON transformer, and the two transactional *)
(* early-return macros rollback! and rollback_for_no_match!.               *)
(*                                                                         *)
(* Text is modelled as a sequence of one-character strings.  Characters    *)
(* outside ASCII are opaque atoms written "U+xxxx".                        *)
(***************************************************************************)
EXTENDS Integers, Sequences, FiniteSets, TLC

VARIABLES
    \* ---- an enclosing operation that checks transactional steps ----
    helpers,        \* the helper macro used after each step (program text)
    code,           \* $code handed to the helpers
    pc,             \* position of the enclosing operation
    stepIdx,        \* the step being run or checked
    outcomes,       \* $resp of every step run so far, in order
    rollbackCalls,  \* number of calls of $tx.rollback()
    tx,             \* the transaction: "open", "rolling", "closed", "broken"
    pendingMsg,     \* message captured by the helper suspended at .await
    ret,            \* what the enclosing operation returned
    \* ---- an envelope on the wire (tests::test_resp) ----
    wpc,            \* "start", "built", "json", "parsed"
    origin,         \* who wrote json: "none", "to_json", "peer"
    built,          \* the envelope a constructor returned
    json,           \* the JSON text
    orig,           \* what serde_json::from_str made of json
    \* ---- a DaoResult at the boundary ----
    dao,            \* the DaoResult
    label,          \* the err_log argument
    op,             \* the call made on it: "none", "to_json_str", "to_json"
    out,            \* what the call gave back
    log             \* the entries written to the log

txVars == <<helpers, code, pc, stepIdx, outcomes, rollbackCalls, tx, pendingMsg, ret>>

wireVars == <<wpc, origin, built, json, orig>>

outVars == <<dao, label, op, out, log>>

vars == <<txVars, wireVars, outVars>>

(***************************************************************************)
(* Bounds                                                                  *)
(***************************************************************************)
\* number of transactional steps of the enclosing operation
NSteps == 3
\* largest affected-row count a mutation reports
MaxRows == 2

(***************************************************************************)
(* Values                                                                  *)
(***************************************************************************)
\* serde_json::Value, one record shape for every variant:
\* t is the variant, n a number, b a boolean, s a string, a the array items
V(t, n, b, s, a) == [t |-> t, n |-> n, b |-> b, s |-> s, a |-> a]

\* Option::<serde_json::Value>::None
None == V("None", 0, FALSE, <<>>, <<>>)

ApiResp(success, c, message, data) ==
    [success |-> success, code |-> c, message |-> message, data |-> data]

\* ApiResp::error
ApiResp_error(c, message) == ApiResp(FALSE, c, message, None)

\* ApiResp::suc
ApiResp_suc == ApiResp(TRUE, 0, <<>>, None)

\* ApiResp::success
ApiResp_success(data) == ApiResp(TRUE, 0, <<>>, data)

\* DaoResult = Result<ApiResp, Box<dyn Error>>; an error is modelled by the
\* text its Display gives (e.to_string())
Ok(r) == [tag |-> "Ok", resp |-> r, err |-> <<>>]
Err(e) == [tag |-> "Err", resp |-> ApiResp_suc, err |-> e]
NoRet == [tag |-> "NoRet", resp |-> ApiResp_suc, err |-> <<>>]

(***************************************************************************)
(* The transactional helpers                                               *)
(***************************************************************************)
HelperKinds == {"rollback", "rollback_for_no_match"}

\* codes a call site hands to the helpers
Codes == {-1, 7}

\* e.to_string() of the errors a step can fail with
StepErrors == {<<"E", "1">>, <<"E", "2">>}

\* the error of a failed $tx.rollback()
RollbackError == <<"c", "o", "n", "n">>

\* "未匹配到目标记录"
NoMatchMessage ==
    <<"U+672A", "U+5339", "U+914D", "U+5230", "U+76EE", "U+6807", "U+8BB0", "U+5F55">>

\* $resp: Err(e), or Ok(r) with r.rows_affected
StepErr(e) == [tag |-> "Err", err |-> e, rows_affected |-> 0]
StepOk(n) == [tag |-> "Ok", err |-> <<>>, rows_affected |-> n]
StepOutcomes == {StepErr(e) : e \in StepErrors} \cup {StepOk(n) : n \in 0..MaxRows}

InitTx ==
    /\ helpers \in [1..NSteps -> HelperKinds]
    /\ code \in Codes
    /\ pc = "step"
    /\ stepIdx = 1
    /\ outcomes = <<>>
    /\ rollbackCalls = 0
    /\ tx = "open"
    /\ pendingMsg = <<>>
    /\ ret = NoRet

\* the enclosing operation evaluates the step expression $resp
RunStep(o) ==
    /\ pc = "step"
    /\ outcomes' = Append(outcomes, o)
    /\ pc' = "check"
    /\ UNCHANGED <<helpers, code, stepIdx, rollbackCalls, tx, pendingMsg, ret>>
    /\ UNCHANGED <<wireVars, outVars>>

\* the helper matched nothing: control continues after the macro
FallThrough ==
    /\ stepIdx' = stepIdx + 1
    /\ pc' = IF stepIdx = NSteps THEN "fellthrough" ELSE "step"
    /\ UNCHANGED <<helpers, code, outcomes, rollbackCalls, tx, pendingMsg, ret>>

CallRollback_NotAwaited(message) ==
    /\ rollbackCalls' = rollbackCalls + 1
    /\ tx' = "rolling"
    /\ pc' = "returned"
    /\ ret' = Ok(ApiResp_error(code, message))
    /\ UNCHANGED <<helpers, code, stepIdx, outcomes, pendingMsg>>

\* $tx.rollback() is called and the operation suspends at .await
CallRollback(message) ==
    /\ rollbackCalls' = rollbackCalls + 1
    /\ tx' = "rolling"
    /\ pc' = "await"
    /\ pendingMsg' = message
    /\ UNCHANGED <<helpers, code, stepIdx, outcomes, ret>>

rollback_NoMatchToo ==
    /\ UNCHANGED <<wireVars, outVars>>
    /\ pc = "check"
    /\ helpers[stepIdx] = "rollback"
    /\ LET resp == outcomes[stepIdx]
       IN  IF resp.tag = "Err" THEN CallRollback(resp.err)
           ELSE IF resp.rows_affected = 0 THEN CallRollback(NoMatchMessage)
           ELSE FallThrough

\* rollback!($resp, $tx, $code) up to its .await
rollback ==
    /\ UNCHANGED <<wireVars, outVars>>
    /\ pc = "check"
    /\ helpers[stepIdx] = "rollback"
    /\ LET resp == outcomes[stepIdx]
       IN  IF resp.tag = "Err" THEN CallRollback(resp.err) ELSE FallThrough

rollback_for_no_match_ErrOnly ==
    /\ UNCHANGED <<wireVars, outVars>>
    /\ pc = "check"
    /\ helpers[stepIdx] = "rollback_for_no_match"
    /\ LET resp == outcomes[stepIdx]
       IN  IF resp.tag = "Err" THEN CallRollback(resp.err) ELSE FallThrough

\* rollback_for_no_match!($resp, $tx, $code) up to its .await
rollback_for_no_match ==
    /\ UNCHANGED <<wireVars, outVars>>
    /\ pc = "check"
    /\ helpers[stepIdx] = "rollback_for_no_match"
    /\ LET resp == outcomes[stepIdx]
       IN  IF resp.tag = "Err" THEN CallRollback(resp.err)
           ELSE IF resp.rows_affected = 0 THEN CallRollback(NoMatchMessage)
           ELSE FallThrough

RollbackDone_Folded(ok) ==
    /\ UNCHANGED <<wireVars, outVars>>
    /\ pc = "await"
    /\ tx' = IF ok THEN "closed" ELSE "broken"
    /\ ret' = Ok(ApiResp_error(code, IF ok THEN pendingMsg ELSE RollbackError))
    /\ pc' = "returned"
    /\ UNCHANGED <<helpers, code, stepIdx, outcomes, rollbackCalls, pendingMsg>>

RollbackDone_NoReturn(ok) ==
    /\ UNCHANGED <<wireVars, outVars>>
    /\ pc = "await"
    /\ tx' = IF ok THEN "closed" ELSE "broken"
    /\ stepIdx' = stepIdx + 1
    /\ pc' = IF stepIdx = NSteps THEN "fellthrough" ELSE "step"
    /\ UNCHANGED <<helpers, code, outcomes, rollbackCalls, pendingMsg, ret>>

\* .await of $tx.rollback() completes; `?` returns its error, otherwise
\* return Ok(ApiResp::error($code, message))
RollbackDone(ok) ==
    /\ UNCHANGED <<wireVars, outVars>>
    /\ pc = "await"
    /\ tx' = IF ok THEN "closed" ELSE "broken"
    /\ ret' = IF ok THEN Ok(ApiResp_error(code, pendingMsg)) ELSE Err(RollbackError)
    /\ pc' = "returned"
    /\ UNCHANGED <<helpers, code, stepIdx, outcomes, rollbackCalls, pendingMsg>>

TxIdle ==
    /\ helpers = <<>>
    /\ code = 0
    /\ pc = "idle"
    /\ stepIdx = 1
    /\ outcomes = <<>>
    /\ rollbackCalls = 0
    /\ tx = "open"
    /\ pendingMsg = <<>>
    /\ ret = NoRet

(***************************************************************************)
(* JSON text: serde_json::to_string on ApiResp (derive(Serialize))         *)
(***************************************************************************)
\* longest message / string payload, in characters
MaxMsgLen == 2
\* longest array payload
MaxArrLen == 2

Null == V("Null", 0, FALSE, <<>>, <<>>)
Bool(b) == V("Bool", 0, b, <<>>, <<>>)
Number(n) == V("Number", n, FALSE, <<>>, <<>>)
String(s) == V("String", 0, FALSE, s, <<>>)
Array(a) == V("Array", 0, FALSE, <<>>, a)
\* stands for a payload whose Serialize returns Err: the case the Err arm of
\* ApiResp::to_json is written for
Unserializable == V("Unserializable", 0, FALSE, <<>>, <<>>)

Digits == <<"0", "1", "2", "3", "4", "5", "6", "7", "8", "9">>

RECURSIVE FmtNat(_)
\* itoa of a non-negative integer
FmtNat(n) == IF n < 10 THEN <<Digits[n + 1]>> ELSE FmtNat(n \div 10) \o <<Digits[(n % 10) + 1]>>

\* itoa of a signed integer; the magnitude of a negative one is taken digit by
\* digit, so that i32::MIN has no overflow
FmtInt(n) ==
    IF n >= 0 THEN FmtNat(n)
    ELSE LET last == (10 - (n % 10)) % 10
             high == -((n + last) \div 10)
         IN  <<"-">> \o (IF high = 0 THEN <<>> ELSE FmtNat(high)) \o <<Digits[last + 1]>>

\* serde_json's escape table, for the characters of the model
EscapeChar(c) ==
    CASE c = "\"" -> <<"\\", "\"">>
      [] c = "\\" -> <<"\\", "\\">>
      [] c = "\n" -> <<"\\", "n">>
      [] OTHER -> <<c>>

RECURSIVE EscapeStr(_)
EscapeStr(s) == IF s = <<>> THEN <<>> ELSE EscapeChar(Head(s)) \o EscapeStr(Tail(s))

\* a JSON string literal
SerStr(s) == <<"\"">> \o EscapeStr(s) \o <<"\"">>

SerOk(text) == [ok |-> TRUE, text |-> text]
SerErr == [ok |-> FALSE, text |-> <<>>]

RECURSIVE SerValue(_)
RECURSIVE SerItems(_, _)
\* the items of an array, comma separated
SerItems(a, i) ==
    IF i > Len(a) THEN SerOk(<<>>)
    ELSE LET x == SerValue(a[i])
             r == SerItems(a, i + 1)
         IN  IF x.ok /\ r.ok
             THEN SerOk((IF i = 1 THEN <<>> ELSE <<",">>) \o x.text \o r.text)
             ELSE SerErr

\* impl Serialize for serde_json::Value
SerValue(v) ==
    CASE v.t = "Null" -> SerOk(<<"n", "u", "l", "l">>)
      [] v.t = "Bool" -> SerOk(IF v.b THEN <<"t", "r", "u", "e">> ELSE <<"f", "a", "l", "s", "e">>)
      [] v.t = "Number" -> SerOk(FmtInt(v.n))
      [] v.t = "String" -> SerOk(SerStr(v.s))
      [] v.t = "Array" ->
            LET r == SerItems(v.a, 1)
            IN  IF r.ok THEN SerOk(<<"[">> \o r.text \o <<"]">>) ELSE SerErr
      [] OTHER -> SerErr

\* impl Serialize for Option<Value>: None is written as null
SerOption(d) == IF d.t = "None" THEN SerOk(<<"n", "u", "l", "l">>) ELSE SerValue(d)

\* serde_json::to_string(&ApiResp): the derived Serialize writes the four
\* fields in declaration order
to_string(resp) ==
    LET d == SerOption(resp.data)
    IN  IF ~d.ok THEN SerErr
        ELSE SerOk(<<"{", "\"", "s", "u", "c", "c", "e", "s", "s", "\"", ":">>
                   \o (IF resp.success THEN <<"t", "r", "u", "e">> ELSE <<"f", "a", "l", "s", "e">>)
                   \o <<",", "\"", "c", "o", "d", "e", "\"", ":">>
                   \o FmtInt(resp.code)
                   \o <<",", "\"", "m", "e", "s", "s", "a", "g", "e", "\"", ":">>
                   \o SerStr(resp.message)
                   \o <<",", "\"", "d", "a", "t", "a", "\"", ":">>
                   \o d.text
                   \o <<"}">>)

\* "处理响应结果时出错！"
FallbackMessage ==
    <<"U+5904", "U+7406", "U+54CD", "U+5E94", "U+7ED3", "U+679C", "U+65F6", "U+51FA",
      "U+9519", "U+FF01">>

\* "序列化json字符串时出错！"
SerializeLogPrefix ==
    <<"U+5E8F", "U+5217", "U+5316", "j", "s", "o", "n", "U+5B57", "U+7B26", "U+4E32",
      "U+65F6", "U+51FA", "U+9519", "U+FF01">>

\* what a call gives back: a text and the log entries it wrote, or a panic
Returned(text, entries) == [panicked |-> FALSE, text |-> text, logged |-> entries]
Panicked(entries) == [panicked |-> TRUE, text |-> <<>>, logged |-> entries]

\* Result::unwrap on the outcome of to_string
Unwrap(r, entries) == IF r.ok THEN Returned(r.text, entries) ELSE Panicked(entries)

\* ApiResp::to_json
to_json(resp) ==
    LET r == to_string(resp)
    IN  IF r.ok THEN Returned(r.text, <<>>)
        ELSE Unwrap(to_string(ApiResp_error(-1, FallbackMessage)), <<SerializeLogPrefix>>)

\* {:?} of the boxed error
DebugRepr(e) == <<"\"">> \o e \o <<"\"">>

to_json_str_LogAlways(self, err_log) ==
    IF self.tag = "Ok"
    THEN Unwrap(to_string(self.resp), <<err_log \o <<" ">>>>)
    ELSE Unwrap(to_string(ApiResp_error(-1, self.err)), <<err_log \o <<" ">> \o DebugRepr(self.err)>>)

\* impl TransformResult for DaoResult: to_json_str
to_json_str(self, err_log) ==
    IF self.tag = "Ok"
    THEN Unwrap(to_string(self.resp), <<>>)
    ELSE Unwrap(to_string(ApiResp_error(-1, self.err)),
                <<err_log \o <<" ">> \o DebugRepr(self.err)>>)

(***************************************************************************)
(* JSON text: serde_json::from_str into ApiResp (derive(Deserialize))      *)
(* Texts carry no whitespace, no nested objects and no fractions: payloads *)
(* are null, booleans, 32-bit integers, strings and arrays of those.       *)
(***************************************************************************)
PFail == [ok |-> FALSE, v |-> Null, next |-> 0]
POk(v, next) == [ok |-> TRUE, v |-> v, next |-> next]

At(txt, i) == IF i \in 1..Len(txt) THEN txt[i] ELSE "EOF"

\* the text continues at i with the characters lit
Lit(txt, i, lit) == i + Len(lit) - 1 <= Len(txt) /\ SubSeq(txt, i, i + Len(lit) - 1) = lit

IsDigit(c) == \E d \in 1..10 : Digits[d] = c
DigitVal(c) == (CHOOSE d \in 1..10 : Digits[d] = c) - 1

RECURSIVE ParseDigits(_, _, _)
\* the digits from i on, accumulated as a negative magnitude acc so that the
\* magnitude of i32::MIN is representable; fails past 2147483648
ParseDigits(txt, i, acc) ==
    IF ~IsDigit(At(txt, i)) THEN POk(Number(acc), i)
    ELSE LET d == DigitVal(txt[i])
         IN  IF acc < -214748364 \/ (acc = -214748364 /\ d > 8) THEN PFail
             ELSE ParseDigits(txt, i + 1, acc * 10 - d)

\* a JSON integer: optional sign, no leading zero
ParseNumber(txt, i) ==
    LET neg == At(txt, i) = "-"
        j == IF neg THEN i + 1 ELSE i
    IN  IF ~IsDigit(At(txt, j)) THEN PFail
        ELSE IF txt[j] = "0" /\ IsDigit(At(txt, j + 1)) THEN PFail
        ELSE LET m == ParseDigits(txt, j, 0)
             IN  IF ~m.ok THEN PFail
                 ELSE IF At(txt, m.next) \in {".", "e", "E"} THEN PFail
                 ELSE IF neg THEN m
                 ELSE IF m.v.n < -2147483647 THEN PFail
                 ELSE POk(Number(-m.v.n), m.next)

RECURSIVE ParseStrBody(_, _, _)
\* the characters of a string literal after its opening quote
ParseStrBody(txt, j, acc) ==
    LET c == At(txt, j)
    IN  CASE c = "EOF" -> PFail
          [] c = "\"" -> POk(String(acc), j + 1)
          [] c = "\n" -> PFail
          [] c = "\\" ->
                LET e == At(txt, j + 1)
                IN  CASE e = "\"" -> ParseStrBody(txt, j + 2, Append(acc, "\""))
                      [] e = "\\" -> ParseStrBody(txt, j + 2, Append(acc, "\\"))
                      [] e = "n" -> ParseStrBody(txt, j + 2, Append(acc, "\n"))
                      [] OTHER -> PFail
          [] OTHER -> ParseStrBody(txt, j + 1, Append(acc, c))

ParseString(txt, i) == IF At(txt, i) = "\"" THEN ParseStrBody(txt, i + 1, <<>>) ELSE PFail

RECURSIVE ParseValue(_, _)
RECURSIVE ParseItems(_, _, _)
\* the items of an array after its opening bracket
ParseItems(txt, i, acc) ==
    LET x == ParseValue(txt, i)
    IN  IF ~x.ok THEN PFail
        ELSE CASE At(txt, x.next) = "," -> ParseItems(txt, x.next + 1, Append(acc, x.v))
               [] At(txt, x.next) = "]" -> POk(Array(Append(acc, x.v)), x.next + 1)
               [] OTHER -> PFail

\* impl Deserialize for serde_json::Value
ParseValue(txt, i) ==
    LET c == At(txt, i)
    IN  CASE c = "n" -> IF Lit(txt, i, <<"n", "u", "l", "l">>) THEN POk(Null, i + 4) ELSE PFail
          [] c = "t" -> IF Lit(txt, i, <<"t", "r", "u", "e">>) THEN POk(Bool(TRUE), i + 4) ELSE PFail
          [] c = "f" ->
                IF Lit(txt, i, <<"f", "a", "l", "s", "e">>) THEN POk(Bool(FALSE), i + 5) ELSE PFail
          [] c = "\"" -> ParseString(txt, i)
          [] c = "[" ->
                IF At(txt, i + 1) = "]" THEN POk(Array(<<>>), i + 2) ELSE ParseItems(txt, i + 1, <<>>)
          [] c = "-" \/ IsDigit(c) -> ParseNumber(txt, i)
          [] OTHER -> PFail

\* impl Deserialize for Option<Value>: null is None, anything else Some(value)
ParseOption(txt, i) ==
    IF At(txt, i) = "n"
    THEN IF Lit(txt, i, <<"n", "u", "l", "l">>) THEN POk(None, i + 4) ELSE PFail
    ELSE ParseValue(txt, i)

KeySuccess == <<"s", "u", "c", "c", "e", "s", "s">>
KeyCode == <<"c", "o", "d", "e">>
KeyMessage == <<"m", "e", "s", "s", "a", "g", "e">>
KeyData == <<"d", "a", "t", "a">>

\* the value of one field of ApiResp, by the field's type
ParseFieldValue(txt, i, key) ==
    CASE key = KeySuccess ->
            LET x == ParseValue(txt, i) IN IF x.ok /\ x.v.t = "Bool" THEN x ELSE PFail
      [] key = KeyCode -> ParseNumber(txt, i)
      [] key = KeyMessage -> ParseString(txt, i)
      [] key = KeyData -> ParseOption(txt, i)
      [] OTHER -> ParseValue(txt, i)

FromErr == [ok |-> FALSE, resp |-> ApiResp_suc]
FromOk(r) == [ok |-> TRUE, resp |-> r]

\* the end of the derived visit_map: success, code and message are required,
\* a missing data is None; nothing may follow the object
FinishFields(txt, next, seen, f) ==
    IF {KeySuccess, KeyCode, KeyMessage} \subseteq seen /\ next = Len(txt) + 1
    THEN FromOk(ApiResp(f.success, f.code, f.message, IF KeyData \in seen THEN f.data ELSE None))
    ELSE FromErr

RECURSIVE ParseFields(_, _, _, _)
\* the derived visit_map: fields in any order, unknown fields ignored, a field
\* given twice is an error
ParseFields(txt, i, seen, f) ==
    LET k == ParseString(txt, i)
    IN  IF ~k.ok \/ At(txt, k.next) # ":" \/ k.v.s \in seen THEN FromErr
        ELSE LET key == k.v.s
                 x == ParseFieldValue(txt, k.next + 1, key)
                 g == CASE key = KeySuccess -> [f EXCEPT !.success = x.v.b]
                        [] key = KeyCode -> [f EXCEPT !.code = x.v.n]
                        [] key = KeyMessage -> [f EXCEPT !.message = x.v.s]
                        [] key = KeyData -> [f EXCEPT !.data = x.v]
                        [] OTHER -> f
                 known == key \in {KeySuccess, KeyCode, KeyMessage, KeyData}
                 seen2 == IF known THEN seen \cup {key} ELSE seen
             IN  IF ~x.ok THEN FromErr
                 ELSE CASE At(txt, x.next) = "," -> ParseFields(txt, x.next + 1, seen2, g)
                        [] At(txt, x.next) = "}" -> FinishFields(txt, x.next + 1, seen2, g)
                        [] OTHER -> FromErr

\* serde_json::from_str::<ApiResp>
from_str(txt) ==
    IF At(txt, 1) # "{" \/ At(txt, 2) = "}" THEN FromErr
    ELSE ParseFields(txt, 2, {}, ApiResp_suc)

(***************************************************************************)
(* An envelope built, written with to_json and read back (tests::test_resp)*)
(***************************************************************************)
\* characters of messages and string payloads
MsgChars == {"a", "n", "\"", "\\", "\n", "U+4EA4"}

\* the strings of at most MaxMsgLen characters
Strs == UNION {[1..k -> MsgChars] : k \in 0..MaxMsgLen}

\* codes handed to ApiResp::error
EnvCodes == {-2147483647 - 1, -1, 0, 105, 2147483647}

Scalars ==
    {Null, Bool(TRUE), Bool(FALSE), Number(0), Number(-3), Number(42)}
        \cup {String(m) : m \in Strs}

ArrItems == {Null, Number(1), Bool(FALSE), String(<<"a", "\"">>), Array(<<>>), Array(<<Number(5)>>)}

\* payloads handed to ApiResp::success
Payloads == Scalars \cup UNION {{Array(a) : a \in [1..k -> ArrItems]} : k \in 0..MaxArrLen}

NoResp == ApiResp(TRUE, 0, <<>>, V("NoResp", 0, FALSE, <<>>, <<>>))

\* JSON objects a peer can send
Field(key, valueText) == SerStr(key) \o <<":">> \o valueText

RECURSIVE Join(_)
Join(fields) ==
    IF fields = <<>> THEN <<>>
    ELSE Head(fields) \o (IF Len(fields) > 1 THEN <<",">> ELSE <<>>) \o Join(Tail(fields))

Object(fields) == <<"{">> \o Join(fields) \o <<"}">>

PeerTexts ==
    UNION {
        LET fs == Field(KeySuccess, SerValue(Bool(s)).text)
            fc == Field(KeyCode, FmtInt(c))
            fm == Field(KeyMessage, SerStr(m))
            fd == Field(KeyData, SerOption(d).text)
            fx == Field(<<"x">>, <<"[", "1", "]">>)
        IN  { Object(<<fs, fc, fm, fd>>),
              Object(<<fd, fm, fc, fs>>),
              Object(<<fs, fc, fm>>),
              Object(<<fs, fx, fc, fm, fd>>),
              Object(<<fs, fc, fc, fm, fd>>),
              Object(<<fc, fm, fd>>),
              SubSeq(Object(<<fs, fc, fm, fd>>), 1, 20) }
        : s \in BOOLEAN, c \in {0, -1, 7}, m \in {<<>>, <<"a">>, <<"\\", "n">>},
          d \in {None, Number(1), String(<<"a">>), Array(<<Null>>)} }

WireIdle ==
    /\ wpc = "idle"
    /\ origin = "none"
    /\ built = NoResp
    /\ json = <<>>
    /\ orig = FromErr

OutIdle ==
    /\ dao = NoRet
    /\ label = <<>>
    /\ op = "idle"
    /\ out = Returned(<<>>, <<>>)
    /\ log = <<>>

InitWire ==
    /\ wpc = "start"
    /\ origin = "none"
    /\ built = NoResp
    /\ json = <<>>
    /\ orig = FromErr
    /\ TxIdle
    /\ OutIdle

\* ApiResp::success(data)
Do_success(data) ==
    /\ wpc = "start"
    /\ built' = ApiResp_success(data)
    /\ wpc' = "built"
    /\ UNCHANGED <<origin, json, orig, txVars, outVars>>

\* ApiResp::suc()
Do_suc ==
    /\ wpc = "start"
    /\ built' = ApiResp_suc
    /\ wpc' = "built"
    /\ UNCHANGED <<origin, json, orig, txVars, outVars>>

\* ApiResp::error(code, message)
Do_error(c, message) ==
    /\ wpc = "start"
    /\ built' = ApiResp_error(c, message)
    /\ wpc' = "built"
    /\ UNCHANGED <<origin, json, orig, txVars, outVars>>

\* built.to_json()
Do_to_json ==
    /\ wpc = "built"
    /\ json' = to_json(built).text
    /\ origin' = "to_json"
    /\ wpc' = "json"
    /\ UNCHANGED <<built, orig, txVars, outVars>>

\* a JSON object arrives from a peer
Receive(text) ==
    /\ wpc = "start"
    /\ json' = text
    /\ origin' = "peer"
    /\ wpc' = "json"
    /\ UNCHANGED <<built, orig, txVars, outVars>>

\* serde_json::from_str(json.as_str())
Do_from_str ==
    /\ wpc = "json"
    /\ orig' = from_str(json)
    /\ wpc' = "parsed"
    /\ UNCHANGED <<origin, built, json, txVars, outVars>>

NextWire ==
    \/ \E data \in Payloads : Do_success(data)
    \/ Do_suc
    \/ \E c \in EnvCodes, message \in Strs : Do_error(c, message)
    \/ Do_to_json
    \/ \E text \in PeerTexts : Receive(text)
    \/ Do_from_str

SpecWire == InitWire /\ [][NextWire]_vars

(***************************************************************************)
(* A DaoResult turned into text at the boundary                            *)
(***************************************************************************)
\* the envelopes an operation returns
OutPayloads ==
    {Null, Number(42), String(<<"a", "\"">>), Array(<<Number(1), Null>>),
     Unserializable, Array(<<Number(1), Unserializable>>)}

OutMessages == {<<>>, <<"a">>, <<"\\", "n">>, <<"\n", "\"">>, <<"U+4EA4", "a">>}

OutCodes == {-1, 0, 7}

DaoResults ==
    {Ok(ApiResp_success(d)) : d \in OutPayloads}
        \cup {Ok(ApiResp_suc)}
        \cup {Ok(ApiResp_error(c, m)) : c \in OutCodes, m \in OutMessages}
        \cup {Err(e) : e \in Strs}

Labels == {<<"q">>, <<"u", "p", "d">>}

InitOut ==
    /\ dao \in DaoResults
    /\ label \in Labels
    /\ op = "none"
    /\ out = Returned(<<>>, <<>>)
    /\ log = <<>>
    /\ TxIdle
    /\ WireIdle

\* dao.to_json_str(label)
Do_to_json_str ==
    /\ op = "none"
    /\ out' = to_json_str(dao, label)
    /\ log' = log \o to_json_str(dao, label).logged
    /\ op' = "to_json_str"
    /\ UNCHANGED <<dao, label, txVars, wireVars>>

\* the envelope of an Ok result written with ApiResp::to_json
Do_to_json_ok ==
    /\ op = "none"
    /\ dao.tag = "Ok"
    /\ out' = to_json(dao.resp)
    /\ log' = log \o to_json(dao.resp).logged
    /\ op' = "to_json"
    /\ UNCHANGED <<dao, label, txVars, wireVars>>

NextOut ==
    \/ Do_to_json_str
    \/ Do_to_json_ok

SpecOut == InitOut /\ [][NextOut]_vars

(***************************************************************************)
(* The enclosing operation                                                 *)
(***************************************************************************)
InitEnclosing == InitTx /\ WireIdle /\ OutIdle

NextEnclosing ==
    \/ \E o \in StepOutcomes : RunStep(o)
    \/ rollback
    \/ rollback_for_no_match
    \/ \E ok \in BOOLEAN : RollbackDone(ok)

SpecTx == InitEnclosing /\ [][NextEnclosing]_vars

(***************************************************************************)
(* Claims about the transactional helpers, under SpecTx                     *)
(***************************************************************************)
\* step i made its helper roll back: an error, or no row under the no-match helper
Failing(i) ==
    \/ outcomes[i].tag = "Err"
    \/ helpers[i] = "rollback_for_no_match" /\ outcomes[i].rows_affected = 0

\* the helper of step i has been expanded and has left its check
Checked(i) == i \in 1..Len(outcomes) /\ (i < stepIdx \/ pc # "check")

\* the rollback counted is that of the current step, not of a step before it
LaterStepFailed ==
    stepIdx \in 1..Len(outcomes) /\ Failing(stepIdx) /\ pc \in {"await", "returned"}

\* the message the helper of the current step puts in its envelope
HelperMessage ==
    IF outcomes[stepIdx].tag = "Err" THEN outcomes[stepIdx].err ELSE NoMatchMessage

\* C1 as stated: under rollback!, an error outcome means one rollback and the
\* enclosing operation returns Ok(error(code, description)); a success outcome
\* means no rollback and control falls through.
C1_AsStated ==
    \A i \in 1..Len(outcomes) :
        (Checked(i) /\ helpers[i] = "rollback") =>
            IF outcomes[i].tag = "Err"
            THEN /\ i = stepIdx
                 /\ rollbackCalls = 1
                 /\ pc \in {"await", "returned"}
                 /\ pc = "returned" => ret = Ok(ApiResp_error(code, outcomes[i].err))
            ELSE /\ i < stepIdx
                 /\ rollbackCalls = 0 \/ LaterStepFailed

\* C1 amended: under rollback!, an error outcome means one rollback, and the
\* enclosing operation returns Ok(error(code, description)) when that rollback
\* succeeds and the rollback's own error when it fails; a success outcome means
\* no rollback by this helper and control falls through to the next step.
C1_Rollback ==
    \A i \in 1..Len(outcomes) :
        (Checked(i) /\ helpers[i] = "rollback") =>
            IF outcomes[i].tag = "Err"
            THEN /\ i = stepIdx
                 /\ rollbackCalls = 1
                 /\ pc \in {"await", "returned"}
                 /\ pc = "returned" =>
                        ret = IF tx = "closed"
                              THEN Ok(ApiResp_error(code, outcomes[i].err))
                              ELSE Err(RollbackError)
            ELSE /\ i < stepIdx
                 /\ rollbackCalls = 0 \/ LaterStepFailed

C1_Witness ==
    /\ pc = "returned"
    /\ helpers[stepIdx] = "rollback"
    /\ stepIdx = 2
    /\ helpers[1] = "rollback"
    /\ ret = Ok(ApiResp_error(code, outcomes[stepIdx].err))

\* C2 as stated: under rollback_for_no_match!, a success with 0 affected rows
\* means one rollback and Ok(error(code, no-match message)); a success with more
\* rows means no rollback and fall through; an error outcome means one rollback
\* and Ok(error(code, description)).
C2_AsStated ==
    \A i \in 1..Len(outcomes) :
        (Checked(i) /\ helpers[i] = "rollback_for_no_match") =>
            IF outcomes[i].tag = "Err" \/ outcomes[i].rows_affected = 0
            THEN /\ i = stepIdx
                 /\ rollbackCalls = 1
                 /\ pc \in {"await", "returned"}
                 /\ pc = "returned" =>
                        ret = Ok(ApiResp_error(code,
                                 IF outcomes[i].tag = "Err" THEN outcomes[i].err
                                 ELSE NoMatchMessage))
            ELSE /\ i < stepIdx
                 /\ rollbackCalls = 0 \/ LaterStepFailed

\* C2 amended: as stated, except that the enclosing operation returns the
\* envelope only when the rollback succeeds; when the rollback fails it ends
\* with the rollback's own error.
C2_RollbackForNoMatch ==
    \A i \in 1..Len(outcomes) :
        (Checked(i) /\ helpers[i] = "rollback_for_no_match") =>
            IF outcomes[i].tag = "Err" \/ outcomes[i].rows_affected = 0
            THEN /\ i = stepIdx
                 /\ rollbackCalls = 1
                 /\ pc \in {"await", "returned"}
                 /\ pc = "returned" =>
                        ret = IF tx = "closed"
                              THEN Ok(ApiResp_error(code,
                                      IF outcomes[i].tag = "Err" THEN outcomes[i].err
                                      ELSE NoMatchMessage))
                              ELSE Err(RollbackError)
            ELSE /\ i < stepIdx
                 /\ rollbackCalls = 0 \/ LaterStepFailed

C2_Witness ==
    /\ pc = "returned"
    /\ helpers[stepIdx] = "rollback_for_no_match"
    /\ stepIdx = 2
    /\ helpers[1] = "rollback_for_no_match"
    /\ outcomes[1].rows_affected > 0
    /\ outcomes[2] = StepOk(0)
    /\ ret = Ok(ApiResp_error(code, NoMatchMessage))

\* C3: whenever the enclosing operation has returned a failure envelope, the
\* rollback it awaited has completed and the transaction is closed.
C3_RollbackBeforeReturn ==
    (ret.tag = "Ok" /\ ~ret.resp.success) =>
        /\ tx = "closed"
        /\ rollbackCalls = 1
        /\ pc = "returned"
        /\ ret.resp = ApiResp_error(code, HelperMessage)

C3_Witness ==
    /\ ret.tag = "Ok"
    /\ ~ret.resp.success
    /\ tx = "closed"
    /\ helpers[stepIdx] = "rollback"

\* C4: when the rollback itself fails, the enclosing operation ends with that
\* failure as Err and returns no envelope.
C4_RollbackFailureIsErr ==
    tx = "broken" => (pc = "returned" /\ ret = Err(RollbackError))

C4_Witness ==
    /\ tx = "broken"
    /\ ret.tag = "Err"
    /\ helpers[stepIdx] = "rollback_for_no_match"
    /\ outcomes[stepIdx] = StepOk(0)

\* C10: the first failing step ends the operation: no later step runs, no step
\* runs twice, rollback is called at most once, and never when no step fails.
C10_ShortCircuit ==
    /\ rollbackCalls <= 1
    /\ Len(outcomes) = IF pc \in {"step", "fellthrough"} THEN stepIdx - 1 ELSE stepIdx
    /\ \A i \in 1..Len(outcomes) :
           (Checked(i) /\ Failing(i)) =>
               (i = Len(outcomes) /\ pc \in {"await", "returned"} /\ rollbackCalls = 1)
    /\ (\A i \in 1..Len(outcomes) : ~Failing(i)) => (rollbackCalls = 0 /\ ret = NoRet)
    /\ pc = "returned" => ret # NoRet

C10_Witness ==
    /\ pc = "returned"
    /\ stepIdx = 2
    /\ Len(outcomes) = 2
    /\ rollbackCalls = 1

(***************************************************************************)
(* Claims about the envelope and its JSON text                             *)
(***************************************************************************)
\* C5 as stated: reading back the text to_json wrote for an envelope built by
\* success(v), suc() or error(code, msg) gives success, code, message and data
\* exactly as built, for every payload v, the JSON null included.
C5_RoundTrip ==
    (wpc = "parsed" /\ origin = "to_json") => orig = FromOk(built)

\* the envelope invariant of the data model
EnvelopeInvariant(e) ==
    /\ ~e.success => e.data = None
    /\ (e.success /\ e.data = None) => (e.code = 0 /\ e.message = <<>>)

\* C8 as stated: every envelope the module yields - from a constructor, from a
\* transactional helper, from to_json_str's Err arm, or read from a JSON
\* object - has no data when success is false, and code 0 and an empty message
\* when it is a success without payload.
C8_EnvelopeInvariant ==
    /\ wpc \in {"built", "json", "parsed"} /\ origin # "peer" => EnvelopeInvariant(built)
    /\ ret.tag = "Ok" => EnvelopeInvariant(ret.resp)
    /\ dao.tag = "Ok" => EnvelopeInvariant(dao.resp)
    /\ dao.tag = "Err" => EnvelopeInvariant(ApiResp_error(-1, dao.err))
    /\ (wpc = "parsed" /\ orig.ok) => EnvelopeInvariant(orig.resp)

(***************************************************************************)
(* Claims about the transformer, under SpecOut                             *)
(***************************************************************************)
\* the envelope to_json_str writes: the Ok one, or error(-1, description)
Minted == IF dao.tag = "Ok" THEN dao.resp ELSE ApiResp_error(-1, dao.err)

Contains(t, s) == \E i \in 1..(Len(t) - Len(s) + 1) : SubSeq(t, i, i + Len(s) - 1) = s

\* C7: a call of to_json_str on Err writes exactly one log entry, and the entry
\* contains the label; a call on Ok writes none.
C7_LoggedOnce ==
    op = "to_json_str" =>
        IF dao.tag = "Err"
        THEN Len(log) = 1 /\ Contains(log[1], label) /\ Contains(log[1], dao.err)
        ELSE log = <<>>

C7_Witness ==
    /\ op = "to_json_str"
    /\ dao.tag = "Err"
    /\ Len(log) = 1
    /\ label = <<"u", "p", "d">>
    /\ ~out.panicked

====
